---- MODULE Spec2Model ----
(***************************************************************************)
(* MyLinearModel of exercise_codeyourownlinearregression.ipynb (the final  *)
(* class, cell 26): an OLS estimator with __init__, fit and predict.       *)
(*                                                                         *)
(* Numbers.  The arrays of the notebook hold IEEE doubles.  The model      *)
(* computes with exact rationals <<num, den>> (den > 0, lowest terms) and  *)
(* with four more float values: "nan", "inf", "-inf" (the results numpy    *)
(* gives for a division by zero, with a warning and no exception) and      *)
(* "garbage", an unspecified float: what numpy.linalg.inv leaves in its    *)
(* result when the matrix is singular and the rounded LU factorisation     *)
(* meets no pivot that is exactly zero.  A square root is kept symbolic.   *)
(***************************************************************************)
EXTENDS Integers, Sequences, FiniteSets, TLC

\* Bounds of the model: the inputs of fit and predict are integer matrices
\* of 1..MaxRows rows and 1..MaxCols columns with entries in 0..MaxVal, and
\* integer vectors of 1..MaxRows entries in 0..MaxVal.
MaxRows == 3
MaxCols == 2
MaxVal == 1
\* A matrix has at most MaxCells entries.
MaxCells == 4

\* An attribute that is None (no array has zero entries in this model).
None == <<>>

-----------------------------------------------------------------------------
(* Exact rational arithmetic *)

Abs(a) == IF a < 0 THEN -a ELSE a

RECURSIVE GCD(_, _)
GCD(a, b) == IF b = 0 THEN a ELSE GCD(b, a % b)

\* The rational a/b (b # 0) in lowest terms with a positive denominator.
Rat(a, b) ==
    LET g == GCD(Abs(a), Abs(b))
        s == IF b < 0 THEN -1 ELSE 1
    IN  <<(s * a) \div g, (s * b) \div g>>

RInt(a) == <<a, 1>>
RAdd(q, r) == Rat(q[1] * r[2] + r[1] * q[2], q[2] * r[2])
RSub(q, r) == Rat(q[1] * r[2] - r[1] * q[2], q[2] * r[2])
RMul(q, r) ==
    LET a == Rat(q[1], r[2])
        b == Rat(r[1], q[2])
    IN  <<a[1] * b[1], a[2] * b[2]>>
RDivInt(q, d) == Rat(q[1], q[2] * d)

-----------------------------------------------------------------------------
(* Floats: <<kind, num, den>>.  kind "rat" is the finite number num/den,   *)
(* kind "sqrt" the square root of num/den; the other kinds carry 0/1.      *)

Flt(q) == <<"rat", q[1], q[2]>>
NaN == <<"nan", 0, 1>>
PosInf == <<"inf", 0, 1>>
NegInf == <<"-inf", 0, 1>>
Garbage == <<"garbage", 0, 1>>

IsRat(x) == x[1] = "rat"
Q(x) == <<x[2], x[3]>>

\* The sign of a float that is a number or an infinity.
Sign(x) ==
    CASE x = PosInf -> 1
      [] x = NegInf -> -1
      [] OTHER -> IF x[2] > 0 THEN 1 ELSE IF x[2] < 0 THEN -1 ELSE 0

\* x * y on float64 values.
FMul(x, y) ==
    CASE x = Garbage \/ y = Garbage -> Garbage
      [] x = NaN \/ y = NaN -> NaN
      [] IsRat(x) /\ IsRat(y) -> Flt(RMul(Q(x), Q(y)))
      [] Sign(x) * Sign(y) = 0 -> NaN
      [] OTHER -> IF Sign(x) * Sign(y) > 0 THEN PosInf ELSE NegInf

\* x / d for a float64 x and an integer d: numpy divides by zero with a
\* RuntimeWarning and a nan or an infinity, never with an exception.
FDivInt(x, d) ==
    CASE x = Garbage -> Garbage
      [] x = NaN -> NaN
      [] d = 0 -> IF Sign(x) = 0 THEN NaN ELSE IF Sign(x) > 0 THEN PosInf ELSE NegInf
      [] IsRat(x) -> Flt(RDivInt(Q(x), d))
      [] OTHER -> IF Sign(x) * d > 0 THEN PosInf ELSE NegInf

\* x / y for two float64 values, y a finite number or garbage.
FDiv(x, y) ==
    CASE x = Garbage \/ y = Garbage -> Garbage
      [] x = NaN -> NaN
      [] y[2] = 0 -> IF Sign(x) = 0 THEN NaN ELSE IF Sign(x) > 0 THEN PosInf ELSE NegInf
      [] IsRat(x) -> Flt(Rat(x[2] * y[3], x[3] * y[2]))
      [] OTHER -> IF Sign(x) * Sign(y) > 0 THEN PosInf ELSE NegInf

\* 1 - x for a float64 x.
OneMinus(x) ==
    CASE x = Garbage -> Garbage
      [] x = NaN -> NaN
      [] x = PosInf -> NegInf
      [] x = NegInf -> PosInf
      [] OTHER -> Flt(RSub(RInt(1), Q(x)))

FNeg(x) ==
    CASE x = PosInf -> NegInf
      [] x = NegInf -> PosInf
      [] IsRat(x) -> <<"rat", -x[2], x[3]>>
      [] OTHER -> x

\* x + y on float64 values.
FAdd(x, y) ==
    CASE x = Garbage \/ y = Garbage -> Garbage
      [] x = NaN \/ y = NaN -> NaN
      [] IsRat(x) /\ IsRat(y) -> Flt(RAdd(Q(x), Q(y)))
      [] IsRat(x) -> y
      [] IsRat(y) -> x
      [] OTHER -> IF x = y THEN x ELSE NaN

FSub(x, y) == FAdd(x, FNeg(y))

RECURSIVE FSumTo(_, _)
FSumTo(v, i) == IF i = 0 THEN Flt(RInt(0)) ELSE FAdd(FSumTo(v, i - 1), v[i])
\* np.sum of a vector of floats.
FSum(v) == FSumTo(v, Len(v))

\* np.sqrt of one float64: nan below zero (a warning, no exception).
Sqrt(x) ==
    CASE x = Garbage -> Garbage
      [] x = NaN -> NaN
      [] x = NegInf -> NaN
      [] x = PosInf -> PosInf
      [] x[2] < 0 -> NaN
      [] OTHER -> <<"sqrt", x[2], x[3]>>

-----------------------------------------------------------------------------
(* Matrices: a matrix is a sequence of rows, a row a sequence of entries *)

NRows(M) == Len(M)
NCols(M) == Len(M[1])
Column(M, j) == [i \in 1..NRows(M) |-> M[i][j]]

RECURSIVE IntDotTo(_, _, _)
IntDotTo(u, v, i) == IF i = 0 THEN 0 ELSE IntDotTo(u, v, i - 1) + u[i] * v[i]
IntDot(u, v) == IntDotTo(u, v, Len(u))

\* X_transpose @ X for an integer matrix X.
Gram(X) ==
    [i \in 1..NCols(X) |-> [j \in 1..NCols(X) |-> IntDot(Column(X, i), Column(X, j))]]

\* M without row i and column j.
Minor(M, i, j) ==
    [a \in 1..(Len(M) - 1) |->
        [b \in 1..(Len(M) - 1) |->
            M[IF a < i THEN a ELSE a + 1][IF b < j THEN b ELSE b + 1]]]

RECURSIVE Det(_)
RECURSIVE DetTo(_, _)
\* The first j terms of the expansion of Det(M) along the first row.
DetTo(M, j) ==
    IF j = 0 THEN 0
    ELSE DetTo(M, j - 1)
         + (IF j % 2 = 1 THEN 1 ELSE -1) * M[1][j] * Det(Minor(M, 1, j))
Det(M) == IF Len(M) = 1 THEN M[1][1] ELSE DetTo(M, Len(M))

\* The exact inverse of a non-singular integer matrix: adjugate over determinant.
ExactInverse(M) ==
    LET d == Det(M)
        cof(i, j) == IF Len(M) = 1 THEN 1
                     ELSE (IF (i + j) % 2 = 0 THEN 1 ELSE -1) * Det(Minor(M, i, j))
    IN  [i \in 1..Len(M) |-> [j \in 1..Len(M) |-> Rat(cof(j, i), d)]]

-----------------------------------------------------------------------------
(* numpy and statsmodels operations used by the class *)

\* The outcome of one statement: its value, or the exception it raises.
Ok(v) == [raised |-> "none", val |-> v]
Raise(e) == [raised |-> e, val |-> None]

\* sm.add_constant(x) with its defaults prepend=True, has_constant='skip':
\* a column of ones is put in front unless x already has a column that is
\* constant and non-zero, in which case x comes back as it is.
add_constant(x) ==
    LET is_nonzero_const(j) ==
            /\ \A i \in 1..NRows(x) : x[i][j] = x[1][j]
            /\ \A i \in 1..NRows(x) : x[i][j] # 0
    IN  IF \E j \in 1..NCols(x) : is_nonzero_const(j)
        THEN x
        ELSE [i \in 1..NRows(x) |-> <<1>> \o x[i]]

\* np.hstack((np.ones((X.shape[0], 1)), X)): the augmentation of the class
\* before the fit_intercept option (cell 23).
hstack_ones(X) == [i \in 1..NRows(X) |-> <<1>> \o X[i]]

\* A singular matrix whose LU factorisation meets a pivot that is exactly
\* zero whatever the rounding: a zero row, or two equal rows.
SurelySingular(M) ==
    \/ Len(M) = 1 /\ M[1][1] = 0
    \/ \E i \in 1..Len(M) : \A j \in 1..Len(M) : M[i][j] = 0
    \/ \E i, j \in 1..Len(M) : i # j /\ M[i] = M[j]

\* np.linalg.inv(M) of a square integer matrix.  It raises LinAlgError when
\* the factorisation meets a zero pivot.  For a singular M that is not
\* SurelySingular the pivots are rounded and may all be non-zero: `hidden`
\* is that outcome, and the result is then a matrix of unspecified floats.
inv(M, hidden) ==
    IF Det(M) # 0
    THEN Ok([i \in 1..Len(M) |-> [j \in 1..Len(M) |-> Flt(ExactInverse(M)[i][j])]])
    ELSE IF hidden /\ ~SurelySingular(M)
         THEN Ok([i \in 1..Len(M) |-> [j \in 1..Len(M) |-> Garbage]])
         ELSE Raise("LinAlgError")

\* The dot product of an integer row and a vector of floats.
Dot(row, b) == FSum([j \in 1..Len(row) |-> FMul(Flt(RInt(row[j])), b[j])])

\* A @ b for an integer matrix A and a vector b of floats; b = None is the
\* attribute not yet set.  numpy raises when the inner dimensions differ
\* and when an operand is no array.
MatVec(A, b) ==
    IF b = None \/ NCols(A) # Len(b)
    THEN Raise("ValueError")
    ELSE Ok([i \in 1..NRows(A) |-> Dot(A[i], b)])

\* np.linalg.inv(X_transpose @ X) @ X_transpose @ y, left to right.
NormalEquations(X, y, hidden) ==
    LET XtX_inv == inv(Gram(X), hidden)
        Xty == [j \in 1..NCols(X) |-> Flt(RInt(IntDot(Column(X, j), y)))]
    IN  IF XtX_inv.raised # "none" THEN XtX_inv
        ELSE IF NRows(X) # Len(y) THEN Raise("ValueError")
        ELSE Ok([i \in 1..NCols(X) |->
                    FSum([j \in 1..NCols(X) |-> FMul(XtX_inv.val[i][j], Xty[j])])])

\* np.sum(residuals**2)
SumSquares(residuals) == FSum([i \in 1..Len(residuals) |-> FMul(residuals[i], residuals[i])])

\* The division as Python floats do it: ZeroDivisionError on a zero denominator.
ErrorVariance_raises(rss, n, p) ==
    IF n - p = 0 THEN Raise("ZeroDivisionError") ELSE Ok(FDivInt(rss, n - p))

\* np.sum(residuals**2) / (X.shape[0] - X.shape[1]): a float64 divided by
\* an int, so a zero denominator gives nan or inf and no exception.
ErrorVariance(rss, n, p) == Ok(FDivInt(rss, n - p))

\* np.sqrt(np.diag(error_variance * np.linalg.inv(X_transpose @ X)))
StdErrors(error_variance, XtX_inv) ==
    [i \in 1..Len(XtX_inv) |-> Sqrt(FMul(error_variance, XtX_inv[i][i]))]

\* np.sum((y - y.mean()) ** 2)
TotalVariance(y) ==
    LET mean == RDivInt(RInt(IntDotTo(y, [i \in 1..Len(y) |-> 1], Len(y))), Len(y))
    IN  FSum([i \in 1..Len(y) |->
                LET d == RSub(RInt(y[i]), mean) IN Flt(RMul(d, d))])

\* 1 - (np.sum(residuals**2) / total_variance)
RSquared(rss, total_variance) == Ok(OneMinus(FDiv(rss, total_variance)))

-----------------------------------------------------------------------------
(* class MyLinearModel *)

\* __init__ with r_squared initialised to 0.0 and not to None.
New_zero_r_squared(fit_intercept) ==
    [coefficients |-> None, std_errors |-> None, r_squared |-> Flt(RInt(0)),
     fit_intercept |-> fit_intercept]

\* __init__(self, fit_intercept=True)
New(fit_intercept) ==
    [coefficients |-> None, std_errors |-> None, r_squared |-> None,
     fit_intercept |-> fit_intercept]

\* fit(self, X, y), statement by statement: an exception ends the call and
\* keeps the assignments made before it.  The result is the estimator after
\* the call, the exception raised ("none" when the call returns) and the
\* value returned.
fit(self, X, y, hidden) ==
    LET Xa == IF self.fit_intercept THEN add_constant(X) ELSE X
        coefficients == NormalEquations(Xa, y, hidden)
        self1 == [self EXCEPT !.coefficients = coefficients.val]
        y_pred == MatVec(Xa, coefficients.val)
        residuals == [i \in 1..Len(y) |-> FSub(Flt(RInt(y[i])), y_pred.val[i])]
        error_variance == ErrorVariance(SumSquares(residuals), NRows(Xa), NCols(Xa))
        XtX_inv == inv(Gram(Xa), hidden)
        self2 == [self1 EXCEPT !.std_errors = StdErrors(error_variance.val, XtX_inv.val)]
        r_squared == RSquared(SumSquares(residuals), TotalVariance(y))
        self3 == [self2 EXCEPT !.r_squared = r_squared.val]
    IN  CASE coefficients.raised # "none" ->
                [self |-> self, raised |-> coefficients.raised, ret |-> None]
          [] y_pred.raised # "none" ->
                [self |-> self1, raised |-> y_pred.raised, ret |-> None]
          [] error_variance.raised # "none" ->
                [self |-> self1, raised |-> error_variance.raised, ret |-> None]
          [] XtX_inv.raised # "none" ->
                [self |-> self1, raised |-> XtX_inv.raised, ret |-> None]
          [] r_squared.raised # "none" ->
                [self |-> self2, raised |-> r_squared.raised, ret |-> None]
          [] OTHER ->
                [self |-> self3, raised |-> "none", ret |-> y_pred.val]

\* predict answering zeros while the coefficients are None.
predict_unfitted_zeros(self, X_test) ==
    LET Xa == IF self.fit_intercept THEN add_constant(X_test) ELSE X_test
        product == IF self.coefficients = None
                   THEN Ok([i \in 1..NRows(Xa) |-> Flt(RInt(0))])
                   ELSE MatVec(Xa, self.coefficients)
    IN  [self |-> self, raised |-> product.raised, ret |-> product.val]

\* predict as the class had it before the fit_intercept option: the column
\* of ones is always put in front.
predict_hstack(self, X_test) ==
    LET product == MatVec(hstack_ones(X_test), self.coefficients)
    IN  [self |-> self, raised |-> product.raised, ret |-> product.val]

\* predict dropping the R-squared of the fit.
predict_resets(self, X_test) ==
    LET Xa == IF self.fit_intercept THEN add_constant(X_test) ELSE X_test
        product == MatVec(Xa, self.coefficients)
    IN  [self |-> [self EXCEPT !.r_squared = None],
         raised |-> product.raised, ret |-> product.val]

\* predict(self, X_test)
predict(self, X_test) ==
    LET Xa == IF self.fit_intercept THEN add_constant(X_test) ELSE X_test
        product == MatVec(Xa, self.coefficients)
    IN  [self |-> self, raised |-> product.raised, ret |-> product.val]
-----------------------------------------------------------------------------
(* The estimator and its callers *)

\* The arguments a caller passes: integer matrices and vectors.
Shapes ==
    {s \in (1..MaxRows) \X (1..MaxCols) : s[1] * s[2] <= MaxCells}
Matrices == UNION {[1..s[1] -> [1..s[2] -> 0..MaxVal]] : s \in Shapes}
Vectors == UNION {[1..m -> 0..MaxVal] : m \in 1..MaxRows}

VARIABLES
    model,      \* the MyLinearModel instance: its four attributes
    call,       \* the last call on it: what was passed and how it ended
    fitted,     \* the arguments and the return value of the last fit that returned
    cell        \* the test cell (fit, then predict): its variables and position

vars == <<model, call, fitted, cell>>

NoCall == [op |-> "init", raised |-> "none", rows |-> 0, cols |-> 0, ylen |-> 0,
           p |-> 0, singular |-> FALSE, retlen |-> 0, yconst |-> FALSE,
           refit |-> FALSE]
NoFit == [X |-> None, y |-> None, ret |-> None]
NoCell == [pc |-> "idle", X |-> None, y |-> None, y_fit |-> None, y_pred |-> None]

\* y has zero variance: every value of y is the same.
ZeroVariance(y) == \A i \in 1..Len(y) : y[i] = y[1]

\* What `call` records of model.fit(X, y) ending as `out`; FitStep sets refit.
FitCall(fit_intercept, X, y, out) ==
    LET Xa == IF fit_intercept THEN add_constant(X) ELSE X
    IN  [op |-> "fit", raised |-> out.raised, rows |-> NRows(X), cols |-> NCols(X),
         ylen |-> Len(y), p |-> NCols(Xa), singular |-> Det(Gram(Xa)) = 0,
         retlen |-> Len(out.ret), yconst |-> ZeroVariance(y), refit |-> FALSE]

\* What `call` records of model.predict(X_test) ending as `out`; p is the
\* column count of the matrix predict multiplied by the coefficients.
PredictCall(fit_intercept, X_test, out) ==
    LET Xa == IF fit_intercept THEN add_constant(X_test) ELSE X_test
    IN  [op |-> "predict", raised |-> out.raised, rows |-> NRows(X_test),
         cols |-> NCols(X_test), ylen |-> 0, p |-> NCols(Xa), singular |-> FALSE,
         retlen |-> Len(out.ret), yconst |-> FALSE, refit |-> FALSE]

\* fit reads no attribute of self but fit_intercept, and what it assigns it
\* assigns whatever self held: the ways fit(X, y) can end are those on a new
\* instance.  (@@ makes the table a value that is computed once.)
FitRuns ==
    [fit_intercept \in BOOLEAN, X \in Matrices, y \in Vectors |->
        {[out |-> fit(New(fit_intercept), X, y, hidden),
          call |-> FitCall(fit_intercept, X, y, fit(New(fit_intercept), X, y, hidden))] :
            hidden \in BOOLEAN}] @@ <<>>

\* Assigned as it would be if fit assigned an attribute only while it is
\* None (a first fit that later fits do not overwrite).
Assigned_once(self, after) ==
    [a \in DOMAIN self |-> IF self[a] = New(self.fit_intercept)[a] THEN after[a] ELSE self[a]]

\* self after a call that left a new instance as `after`: the attributes the
\* call assigned, and for the others what self held.
Assigned(self, after) ==
    [a \in DOMAIN self |-> IF after[a] = New(self.fit_intercept)[a] THEN self[a] ELSE after[a]]

Init ==
    /\ \E fit_intercept \in BOOLEAN : model = New(fit_intercept)
    /\ call = NoCall
    /\ fitted = NoFit
    /\ cell = NoCell

\* The effect of model.fit(X, y) ending as `run` on the estimator; refit
\* records that an earlier fit had returned on it.
FitStep(X, y, run) ==
    /\ model' = Assigned(model, run.out.self)
    /\ call' = [run.call EXCEPT !.refit = (fitted # NoFit)]
    /\ fitted' = IF run.out.raised = "none"
                 THEN [X |-> X, y |-> y, ret |-> run.out.ret]
                 ELSE fitted

\* The effect of model.predict(X_test) ending as `out` on the estimator.
PredictStep(X_test, out) ==
    /\ model' = out.self
    /\ call' = PredictCall(model.fit_intercept, X_test, out)
    /\ UNCHANGED fitted

\* model.fit(X, y) with any arguments.
Fit ==
    \E X \in Matrices, y \in Vectors :
        \E run \in FitRuns[model.fit_intercept, X, y] :
            FitStep(X, y, run) /\ UNCHANGED cell

\* model.predict(X_test) with any argument.
Predict ==
    \E X_test \in Matrices :
        PredictStep(X_test, predict(model, X_test)) /\ UNCHANGED cell

Next == Fit \/ Predict

Spec == Init /\ [][Next]_vars

-----------------------------------------------------------------------------
(* The test cells: a new model, y_fit = model.fit(X, y), then              *)
(* y_pred = model.predict(X) on the same X.  An exception ends the cell.   *)

CellInit ==
    /\ \E fit_intercept \in BOOLEAN : model = New(fit_intercept)
    /\ call = NoCall
    /\ fitted = NoFit
    /\ \E X \in Matrices, y \in Vectors :
         cell = [pc |-> "fit", X |-> X, y |-> y, y_fit |-> None, y_pred |-> None]

\* y_fit = model.fit(X, y)
CellFit ==
    /\ cell.pc = "fit"
    /\ \E run \in FitRuns[model.fit_intercept, cell.X, cell.y] :
         /\ FitStep(cell.X, cell.y, run)
         /\ cell' = IF run.out.raised = "none"
                    THEN [cell EXCEPT !.pc = "predict", !.y_fit = run.out.ret]
                    ELSE [cell EXCEPT !.pc = "fit raised"]

\* y_pred = model.predict(X)
CellPredict ==
    /\ cell.pc = "predict"
    /\ LET out == predict(model, cell.X)
       IN  /\ PredictStep(cell.X, out)
           /\ cell' = IF out.raised = "none"
                      THEN [cell EXCEPT !.pc = "done", !.y_pred = out.ret]
                      ELSE [cell EXCEPT !.pc = "predict raised"]

CellNext == CellFit \/ CellPredict

CellSpec == CellInit /\ [][CellNext]_vars

-----------------------------------------------------------------------------
(* Properties *)

\* The three attributes fit derives.
Derived(self) == <<self.coefficients, self.std_errors, self.r_squared>>

\* The three derived attributes of self are all set, and are what one
\* returning call fit(X, y) assigns.
AllFrom(self, X, y) ==
    /\ \A a \in {"coefficients", "std_errors", "r_squared"} : self[a] # None
    /\ \E run \in FitRuns[self.fit_intercept, X, y] :
         run.out.raised = "none" /\ Derived(self) = Derived(run.out.self)

\* C1: every fit call is all-or-nothing: when it returns, coefficients,
\* standard errors and R-squared are all three the ones computed from that
\* call's (X, y); when it raises, all three are what they were before it.
FitAllOrNothing ==
    [][call'.op = "fit" =>
         IF call'.raised = "none"
         THEN AllFrom(model', fitted'.X, fitted'.y)
         ELSE Derived(model') = Derived(model)]_vars

\* A fit that raised on an estimator an earlier fit had fitted.
FailedFitAfterFit ==
    /\ call.op = "fit" /\ call.raised # "none"
    /\ fitted # NoFit /\ model.coefficients # None

\* C2: a fit with n_samples <= the number of augmented columns raises and
\* does not return.
FewSamplesFitRaises ==
    call.op = "fit" /\ call.rows <= call.p => call.raised # "none"

\* C3: a fit (of a y as long as X has rows) whose augmented X makes X'X
\* singular raises the singular-matrix error, returns nothing and leaves the
\* three derived attributes as they were.
SingularFitRaises ==
    [][call'.op = "fit" /\ call'.singular /\ call'.rows = call'.ylen =>
         /\ call'.raised = "LinAlgError"
         /\ call'.retlen = 0
         /\ Derived(model') = Derived(model)]_vars

\* C4: fit with len(y) different from X's row count raises and changes none
\* of the derived attributes; predict with a column count different from the
\* one of the X of the fit raises and returns nothing.
ShapeMismatchRaises ==
    [][/\ call'.op = "fit" /\ call'.rows # call'.ylen =>
             call'.raised # "none" /\ Derived(model') = Derived(model)
       /\ call'.op = "predict" /\ fitted # NoFit /\ call'.cols # NCols(fitted.X) =>
             call'.raised # "none" /\ call'.retlen = 0]_vars

\* C5: on a fitted estimator with fit_intercept, predict(X_test) with as many
\* columns as the X of the fit puts the column of ones in front and returns
\* one value for every row of X_test.
PredictPrependsOnes ==
    call.op = "predict" /\ model.fit_intercept /\ fitted # NoFit
        /\ call.cols = NCols(fitted.X) =>
            /\ call.raised = "none"
            /\ call.p = call.cols + 1
            /\ call.retlen = call.rows

\* C6: after a fit that returned, there are k+1 coefficients with
\* fit_intercept and k without, k the column count of X, and as many
\* standard errors as coefficients.
CoefficientCount ==
    call.op = "fit" /\ call.raised = "none" =>
        /\ Len(model.coefficients) = call.cols + (IF model.fit_intercept THEN 1 ELSE 0)
        /\ Len(model.std_errors) = Len(model.coefficients)

\* C7: predict on an estimator on which no fit has returned raises and
\* returns no array.
PredictBeforeFitRaises ==
    call.op = "predict" /\ fitted = NoFit =>
        call.raised # "none" /\ call.retlen = 0

\* A predict call on an estimator no fit has fitted.
PredictedBeforeFit ==
    call.op = "predict" /\ fitted = NoFit /\ model.coefficients = None

\* C8: while no fit has returned, coefficients, standard errors and
\* R-squared are all None.
UnsetUntilFit ==
    fitted = NoFit => Derived(model) = <<None, None, None>>

\* A fit that raised on an estimator no fit has fitted.
FailedFitBeforeFit ==
    call.op = "fit" /\ call.raised # "none" /\ fitted = NoFit

\* C9: when fit(X, y) returns, the predict(X) that follows returns, and
\* returns the fitted values fit returned.
PredictReproducesFit ==
    /\ cell.pc # "predict raised"
    /\ cell.pc = "done" => cell.y_pred = cell.y_fit

\* The cell ran to its end on three rows with finite fitted values.
CellDone ==
    /\ cell.pc = "done" /\ Len(cell.y_pred) = MaxRows
    /\ \A i \in 1..Len(cell.y_pred) : IsRat(cell.y_pred[i])
    /\ cell.y_pred = cell.y_fit

\* C10: predict, returning or raising, leaves the four attributes of the
\* estimator as they were.
PredictKeepsModel ==
    [][call'.op = "predict" => model' = model]_vars

\* A predict call that returned on a fitted estimator.
PredictedAfterFit ==
    call.op = "predict" /\ call.raised = "none" /\ model.r_squared # None

\* X_aug' (y - X_aug b): the products of the columns of the augmented matrix
\* fit built with the residual of the coefficients b.
NormalResidual(Xa, y, b) ==
    LET e == [i \in 1..Len(y) |-> FSub(Flt(RInt(y[i])), Dot(Xa[i], b))]
    IN  [j \in 1..NCols(Xa) |->
            FSum([i \in 1..NRows(Xa) |-> FMul(Flt(RInt(Xa[i][j])), e[i])])]

\* C11: a fit with every value of y the same, on a design with more rows
\* than columns, as many rows as y has values and a non-singular X'X,
\* returns, stores coefficients and standard errors, and stores nan as
\* R-squared, with and without fit_intercept.
ZeroVarianceFitGivesNaN ==
    call.op = "fit" /\ call.yconst /\ ~call.singular
        /\ call.rows > call.p /\ call.rows = call.ylen =>
            /\ call.raised = "none"
            /\ model.coefficients # None /\ model.std_errors # None
            /\ model.r_squared = NaN

\* C12: after a fit that returned, the residual of the stored coefficients
\* is orthogonal to every column of the augmented matrix: X_aug' e = 0.
NormalEquationsHold ==
    call.op = "fit" /\ call.raised = "none" =>
        LET Xa == IF model.fit_intercept THEN add_constant(fitted.X) ELSE fitted.X
        IN  \A j \in 1..NCols(Xa) :
                NormalResidual(Xa, fitted.y, model.coefficients)[j] = Flt(RInt(0))

\* C13: no call changes fit_intercept, and a predict on a fitted estimator
\* adds as many columns to X_test as the last fit that returned added to X.
InterceptPolicyFixed ==
    [][/\ model'.fit_intercept = model.fit_intercept
       /\ call'.op = "predict" /\ fitted # NoFit =>
            call'.p - call'.cols = Len(model.coefficients) - NCols(fitted.X)]_vars

\* C14: after a fit(X, y) that returned, whatever the calls before it, the
\* four attributes and the returned value are those of fit(X, y) on a new
\* estimator with the same fit_intercept.
RefitForgetsHistory ==
    call.op = "fit" /\ call.raised = "none" =>
        \E run \in FitRuns[model.fit_intercept, fitted.X, fitted.y] :
            /\ run.out.raised = "none"
            /\ model = run.out.self
            /\ fitted.ret = run.out.ret

\* A fit that returned on an estimator an earlier fit had fitted.
Refitted ==
    call.op = "fit" /\ call.raised = "none" /\ call.refit

====
